---- MODULE Spec2Model ----
(***************************************************************************)
(* Model of the AWS Lambda function write_timestamp_calculate_risk.py:     *)
(* lambda_handler stamps an inbound sensor event, derives roll and pitch,  *)
(* writes the reading to the DynamoDB table 'entries' (insert_entry) and   *)
(* recomputes the device's risk factor in the table 'devices'              *)
(* (calculate_riskfactor).                                                 *)
(*                                                                         *)
(* Each invocation is a process that suspends at its storage calls         *)
(* (put_item, scan, update_item); the two tables are shared by all         *)
(* invocations.                                                            *)
(*                                                                         *)
(* Numbers.  The floating point accelerometer values of the model are the  *)
(* whole values -1.0, 0.0, 1.0, for which atan2 is a multiple of 45        *)
(* degrees (or atan(1/sqrt 2)) and the rounding of line 35/36 is           *)
(* unambiguous.  The composite feature k = soil/1023 + (roll/180 +         *)
(* pitch/90)/2 is kept exactly, as the integer numerator KNum over the     *)
(* common denominator KDen = 1023 * 360; a risk factor d*k is kept as its  *)
(* two factors [d, k] (each over KDen), since their product exceeds the    *)
(* integers of the model checker.  The rounding of the decimal context     *)
(* (28 significant digits) and of binary floating point (17 digits) is     *)
(* below the resolution of the model.                                      *)
(***************************************************************************)
EXTENDS Integers, Sequences, FiniteSets, TLC

\* ------------------------------------------------------------- bounds
\* number of invocations of lambda_handler in a behaviour
NumInvocations == 2
\* largest value of the wall clock (UNIX seconds)
MaxTime == 1

\* ------------------------------------------------------- program constants
\* Limit=10 of entries_table.scan
ScanLimit == 10
\* soil range [0,1023]
SoilMax == 1023
\* roll is divided by 180, pitch by 90
RollMax == 180
PitchMax == 90

\* event['status'] values: 0 sensor ok, -1 sensor has an issue
OK == 0
SENSOR_ERROR == -1

Invocations == 1..NumInvocations

\* keys of the two tables; HashOrder is the order in which a scan of the
\* entries table meets the keys (the order of their partition hashes)
HashOrder == <<"u0", "u1", "u2", "u3">>
UUIDs == {HashOrder[n] : n \in 1..Len(HashOrder)}
DeviceIDs == {"D1", "D2"}

\* -------------------------------------------------------------- inputs
\* sensor payloads of inbound events: accelerometer axes (whole floats),
\* gyroscope axes, rain and soil
Reading1 ==
  [accl_x |-> 0, accl_y |-> 0, accl_z |-> 1, gyro_x |-> 0, gyro_y |-> 0,
   gyro_z |-> 0, rain |-> 7, soil |-> 100]
Reading2 ==
  [accl_x |-> 1, accl_y |-> 1, accl_z |-> 0, gyro_x |-> 0, gyro_y |-> 0,
   gyro_z |-> 0, rain |-> 7, soil |-> 500]

\* status codes that occur in inbound events; 2 stands for any code that is
\* neither 0 nor -1
UnknownStatus == 2

Event(u, d, s, r) ==
  [entryUUID |-> u, deviceID |-> d, status |-> s,
   accl_x |-> r.accl_x, accl_y |-> r.accl_y, accl_z |-> r.accl_z,
   gyro_x |-> r.gyro_x, gyro_y |-> r.gyro_y, gyro_z |-> r.gyro_z,
   rain |-> r.rain, soil |-> r.soil]

\* the inbound events: three readings of device D1 under three keys, a
\* sensor error that reuses the key u1, and an event of unknown status
Events ==
  { Event("u1", "D1", OK, Reading1),
    Event("u2", "D1", OK, Reading2),
    Event("u3", "D1", OK, Reading1),
    Event("u1", "D1", SENSOR_ERROR, Reading1),
    Event("u3", "D1", UnknownStatus, Reading1) }

NoEvent == [status |-> "none"]

\* ------------------------------------------------------- pure functions
Abs(n) == IF n < 0 THEN -n ELSE n

\* round(abs(math.atan2(a, b))*57.3) for a, b in {-1.0, 0.0, 1.0}:
\* atan2 is 0, pi/4, pi/2, 3pi/4 or pi, and 57.3 times it is 0, 45.003,
\* 90.007, 135.010 or 180.013
AbsAtan2Deg(a, b) ==
  CASE a = 0 /\ b >= 0 -> 0
    [] a = 0 /\ b < 0  -> 180
    [] a # 0 /\ b = 0  -> 90
    [] a # 0 /\ b > 0  -> 45
    [] a # 0 /\ b < 0  -> 135

\* round(abs(math.atan2(a, math.sqrt(s)))*57.3) for a in {-1.0, 0.0, 1.0} and
\* s in {0, 1, 2}: atan2(1, sqrt 2) = 0.61548, times 57.3 is 35.267
AbsAtan2SqrtDeg(a, s) ==
  CASE a = 0          -> 0
    [] a # 0 /\ s = 0 -> 90
    [] a # 0 /\ s = 1 -> 45
    [] a # 0 /\ s = 2 -> 35

\* lines 32-35: y = accl_z and z = accl_y are swapped
Roll(e) ==
  LET y == e.accl_z
      z == e.accl_y
  IN AbsAtan2Deg(y, z)

\* lines 32-36
Pitch(e) ==
  LET x == e.accl_x
      y == e.accl_z
      z == e.accl_y
  IN AbsAtan2SqrtDeg(-x, y*y + z*z)

\* decimal.Decimal(repr(f)) of a whole float f: repr gives "f.0", the decimal
\* has coefficient 10*f and exponent -1
DecimalOfRepr(f) == [coef |-> 10 * f, exp |-> -1]

\* denominator of the composite feature: 1023 * 360
KDen == SoilMax * 2 * RollMax

\* soil/1023 + (roll/180 + pitch/90)/2, as a numerator over KDen
KNum(soil, roll, pitch) ==
  (2 * RollMax) * soil + SoilMax * (roll + (RollMax \div PitchMax) * pitch)

\* risk_factor = 0 of line 76
ZeroRisk == [d |-> 0, k |-> 0]

\* the value of a risk factor kept as two factors is zero, is negative
IsZero(rf) == rf.d = 0 \/ rf.k = 0
IsNegative(rf) == (rf.d < 0 /\ rf.k > 0) \/ (rf.d > 0 /\ rf.k < 0)

\* --------------------------------------------------------------- state
VARIABLES
  entries,      \* the table 'entries': entryUUID -> item
  devices,      \* the table 'devices': deviceID -> item
  clock,        \* the wall clock, in UNIX seconds
  pc,           \* where each invocation stands
  event,        \* the event of each invocation
  roll,         \* roll of line 35
  pitch,        \* pitch of line 36
  timestamp,    \* epochtime of line 25
  array,        \* response['Items'] of line 88, sorted by line 91
  risk_factor,  \* risk_factor of lines 76 and 104
  writes,       \* the storage writes each invocation has completed
  scanVersion   \* the number of put_item calls completed when it scanned

vars == <<entries, devices, clock, pc, event, roll, pitch, timestamp, array,
          risk_factor, writes, scanVersion>>

\* the number of put_item calls completed on the entries table
Version == Cardinality({i \in Invocations : "put_item" \in writes[i]})

\* ------------------------------------------------------- storage calls
\* Table.put_item: creates the item, or replaces the item of the same key
put_item(table, item) ==
  [u \in DOMAIN table \cup {item.entryUUID} |->
     IF u = item.entryUUID THEN item ELSE table[u]]

Min(a, b) == IF a < b THEN a ELSE b

\* mutant of scan: the filter also asks for the entries of the current
\* second, so that the sample depends on when the scan runs
scan_recent(table, device_id) ==
  LET keys == SelectSeq(HashOrder, LAMBDA u : u \in DOMAIN table)
      read == SubSeq(keys, 1, Min(ScanLimit, Len(keys)))
      items == [n \in 1..Len(read) |-> table[read[n]]]
  IN SelectSeq(items, LAMBDA it : /\ it.deviceID = device_id
                                  /\ it.status = 0
                                  /\ it.createdDate >= clock)

\* Table.scan(Limit, FilterExpression): at most Limit items are read, in
\* hash order, and the filter deviceID = device_id AND status = 0 is applied
\* to the items read
scan(table, device_id) ==
  LET keys == SelectSeq(HashOrder, LAMBDA u : u \in DOMAIN table)
      read == SubSeq(keys, 1, Min(ScanLimit, Len(keys)))
      items == [n \in 1..Len(read) |-> table[read[n]]]
  IN SelectSeq(items, LAMBDA it : it.deviceID = device_id /\ it.status = 0)

\* mutant of update_item: a conditional write that keeps a row whose
\* lastUpdated is later than v2
update_item_if_newer(table, device_id, v1, v2) ==
  IF device_id \in DOMAIN table /\ table[device_id].lastUpdated > v2
  THEN table
  ELSE [d \in DOMAIN table \cup {device_id} |->
          IF d = device_id
          THEN [deviceID |-> d, riskFactor |-> v1, lastUpdated |-> v2]
          ELSE table[d]]

\* Table.update_item(Key, 'SET riskFactor = :v1, lastUpdated = :v2'): sets
\* the two attributes of the item of that key, creating the item if absent
update_item(table, device_id, v1, v2) ==
  [d \in DOMAIN table \cup {device_id} |->
     IF d = device_id
     THEN [deviceID |-> d, riskFactor |-> v1, lastUpdated |-> v2]
     ELSE table[d]]

\* ------------------------------------------------------- insert_entry
\* lines 45-50: the item of a sensor error
ErrorItem(e, ts) ==
  [entryUUID |-> e.entryUUID, status |-> e.status, deviceID |-> e.deviceID,
   createdDate |-> ts]

\* lines 53-68: the item of a reading
OkItem(e, r, p, ts) ==
  [entryUUID |-> e.entryUUID, status |-> e.status, deviceID |-> e.deviceID,
   accl_x |-> DecimalOfRepr(e.accl_x),
   accl_y |-> DecimalOfRepr(e.accl_y),
   accl_z |-> DecimalOfRepr(e.accl_z),
   gyro_x |-> DecimalOfRepr(e.gyro_x),
   gyro_y |-> DecimalOfRepr(e.gyro_y),
   gyro_z |-> DecimalOfRepr(e.gyro_z),
   roll |-> r, pitch |-> p, rain |-> e.rain, soil |-> e.soil,
   createdDate |-> ts]

\* mutant of EntryItems: the branch on status -1 is missing, so a sensor
\* error is stored with the sensor fields
EntryItemsFull(e, r, p, ts) ==
  IF e.status = SENSOR_ERROR \/ e.status = OK
  THEN {OkItem(e, r, p, ts)}
  ELSE {}

\* mutant of EntryItems: "elif status == 0" is "else", so an event of
\* unknown status is stored
EntryItemsElse(e, r, p, ts) ==
  IF e.status = SENSOR_ERROR
  THEN {ErrorItem(e, ts)}
  ELSE {OkItem(e, r, p, ts)}

\* lines 43-68: the items insert_entry passes to put_item: one for status
\* -1, one for status 0, none for any other status
EntryItems(e, r, p, ts) ==
  IF e.status = SENSOR_ERROR
  THEN {ErrorItem(e, ts)}
  ELSE IF e.status = OK
  THEN {OkItem(e, r, p, ts)}
  ELSE {}

\* ------------------------------------------------ calculate_riskfactor
\* mutant of Ignored: the test is "status > 0", so a sensor error (-1) is
\* aggregated
IgnoredPositive(e) == e.status > OK

\* line 79: any status but 0 returns before the scan
Ignored(e) == e.status # OK

\* list.sort(key=createdDate): a stable sort, as an insertion sort
RECURSIVE InsertByCreatedDate(_, _)
InsertByCreatedDate(sorted, it) ==
  IF sorted = <<>> THEN <<it>>
  ELSE IF sorted[Len(sorted)].createdDate <= it.createdDate
       THEN Append(sorted, it)
       ELSE Append(InsertByCreatedDate(SubSeq(sorted, 1, Len(sorted) - 1), it),
                   sorted[Len(sorted)])

RECURSIVE SortByCreatedDate(_)
SortByCreatedDate(arr) ==
  IF arr = <<>> THEN <<>>
  ELSE InsertByCreatedDate(SortByCreatedDate(SubSeq(arr, 1, Len(arr) - 1)),
                           arr[Len(arr)])

\* mutant of EnoughData: two entries are taken to be enough
EnoughDataTwo(arr) == Len(arr) > 1

\* line 89: the database has enough data
EnoughData(arr) == Len(arr) > 2

\* lines 89-91: the array is sorted in place only when it has enough data
SortedArray(arr) == IF EnoughData(arr) THEN SortByCreatedDate(arr) ELSE arr

\* mutant of Trend: d = k1-k2, as the comment of line 73 has it
TrendSigned(k1, k2) == k1 - k2

\* line 98: d = abs(k1-k2)
Trend(k1, k2) == Abs(k1 - k2)

\* mutant of RiskFactor: the two latest entries of the sorted array are
\* taken, not the two earliest
RiskFactorLatest(arr, e, r, p) ==
  IF EnoughData(arr)
  THEN LET k1 == KNum(arr[Len(arr) - 1].soil, arr[Len(arr) - 1].roll,
                      arr[Len(arr) - 1].pitch)
           k2 == KNum(arr[Len(arr)].soil, arr[Len(arr)].roll,
                      arr[Len(arr)].pitch)
           d == Trend(k1, k2)
           k == KNum(e.soil, r, p)
       IN [d |-> d, k |-> k]
  ELSE ZeroRisk

\* lines 76, 89-104: arr is the array after line 91
RiskFactor(arr, e, r, p) ==
  IF EnoughData(arr)
  THEN LET k1 == KNum(arr[1].soil, arr[1].roll, arr[1].pitch)
           k2 == KNum(arr[2].soil, arr[2].roll, arr[2].pitch)
           d == Trend(k1, k2)
           k == KNum(e.soil, r, p)
       IN [d |-> d, k |-> k]
  ELSE ZeroRisk

\* ---------------------------------------------------- lambda_handler
\* mutant of HandlerCalls: the two calls are swapped
HandlerCallsSwapped == <<"calculate_riskfactor", "insert_entry">>

\* lines 38-39: the calls of lambda_handler, in order
HandlerCalls == <<"insert_entry", "calculate_riskfactor">>

\* the position after the call named c returns
AfterCall(c) ==
  LET n == CHOOSE m \in 1..Len(HandlerCalls) : HandlerCalls[m] = c
  IN IF n < Len(HandlerCalls) THEN HandlerCalls[n + 1] ELSE "done"

Running == {"insert_entry", "calculate_riskfactor", "update_item"}

\* a whole run of lambda_handler on event e at time ts over the two tables,
\* with no other invocation in between; upto names the last call that
\* returned ("insert_entry" when the run was aborted before the device update)
Run(tables, e, ts, upto) ==
  LET items == EntryItems(e, Roll(e), Pitch(e), ts)
      written == IF items = {} THEN tables.entries
                 ELSE put_item(tables.entries, CHOOSE it \in items : TRUE)
      arr == SortedArray(scan(written, e.deviceID))
      rf == RiskFactor(arr, e, Roll(e), Pitch(e))
  IN [entries |-> written,
      devices |-> IF Ignored(e) \/ upto = "insert_entry"
                  THEN tables.devices
                  ELSE update_item(tables.devices, e.deviceID, rf, ts)]

EmptyTables == [entries |-> <<>>, devices |-> <<>>]

\* the contents of the two tables when the first invocation starts: what
\* earlier runs of the handler at time 0 left behind: nothing; a reading of
\* D2 and one of D1; a reading of D2 and two of D1; the same three readings
\* of runs that were aborted before their device update
PriorTables ==
  LET e0 == Event("u0", "D2", OK, Reading2)
      e1 == Event("u1", "D1", OK, Reading1)
      e2 == Event("u2", "D1", OK, Reading2)
      done == "calculate_riskfactor"
      cut == "insert_entry"
      t0 == Run(EmptyTables, e0, 0, done)
      t1 == Run(t0, e1, 0, done)
      c0 == Run(EmptyTables, e0, 0, cut)
      c1 == Run(c0, e1, 0, cut)
  IN { EmptyTables, t1, Run(t1, e2, 0, done), Run(c1, e2, 0, cut) }

Init ==
  /\ clock = 0
  /\ \E t \in PriorTables : entries = t.entries /\ devices = t.devices
  /\ pc = [i \in Invocations |-> "idle"]
  /\ event = [i \in Invocations |-> NoEvent]
  /\ roll = [i \in Invocations |-> 0]
  /\ pitch = [i \in Invocations |-> 0]
  /\ timestamp = [i \in Invocations |-> 0]
  /\ array = [i \in Invocations |-> <<>>]
  /\ risk_factor = [i \in Invocations |-> ZeroRisk]
  /\ writes = [i \in Invocations |-> {}]
  /\ scanVersion = [i \in Invocations |-> 0]

\* invocation i ends: its memory is gone (no state is kept between
\* invocations)
Forget(i) ==
  /\ event' = [event EXCEPT ![i] = NoEvent]
  /\ roll' = [roll EXCEPT ![i] = 0]
  /\ pitch' = [pitch EXCEPT ![i] = 0]
  /\ timestamp' = [timestamp EXCEPT ![i] = 0]
  /\ array' = [array EXCEPT ![i] = <<>>]
  /\ risk_factor' = [risk_factor EXCEPT ![i] = ZeroRisk]
  /\ scanVersion' = [scanVersion EXCEPT ![i] = 0]

\* the call named c returns to lambda_handler, which goes on to its next
\* call or ends
Return(i, c) ==
  /\ pc' = [pc EXCEPT ![i] = AfterCall(c)]
  /\ IF AfterCall(c) = "done"
     THEN Forget(i)
     ELSE UNCHANGED <<event, roll, pitch, timestamp, array, risk_factor,
                      scanVersion>>

\* the wall clock advances
Tick ==
  /\ clock < MaxTime
  /\ clock' = clock + 1
  /\ UNCHANGED <<entries, devices, pc, event, roll, pitch, timestamp, array,
                 risk_factor, writes, scanVersion>>

\* lines 18-36: the platform starts invocation i on event e (invocations are
\* numbered in the order they start)
Receive(i, e) ==
  /\ pc[i] = "idle"
  /\ \A j \in Invocations : j < i => pc[j] # "idle"
  /\ event' = [event EXCEPT ![i] = e]
  /\ timestamp' = [timestamp EXCEPT ![i] = clock]
  /\ roll' = [roll EXCEPT ![i] = Roll(e)]
  /\ pitch' = [pitch EXCEPT ![i] = Pitch(e)]
  /\ pc' = [pc EXCEPT ![i] = HandlerCalls[1]]
  /\ UNCHANGED <<entries, devices, clock, array, risk_factor, writes,
                 scanVersion>>

\* line 38, lines 41-68
InsertEntry(i) ==
  /\ pc[i] = "insert_entry"
  /\ LET items == EntryItems(event[i], roll[i], pitch[i], timestamp[i])
     IN IF items = {}
        THEN UNCHANGED <<entries, writes>>
        ELSE /\ entries' = put_item(entries, CHOOSE it \in items : TRUE)
             /\ writes' = [writes EXCEPT ![i] = @ \cup {"put_item"}]
  /\ Return(i, "insert_entry")
  /\ UNCHANGED <<devices, clock>>

\* line 39, lines 76-80: the sensor is not responding, return
ReturnIgnored(i) ==
  /\ pc[i] = "calculate_riskfactor"
  /\ Ignored(event[i])
  /\ Return(i, "calculate_riskfactor")
  /\ UNCHANGED <<entries, devices, clock, writes>>

\* line 39, lines 76-106: scan, sort and compute the risk factor
ScanEntries(i) ==
  /\ pc[i] = "calculate_riskfactor"
  /\ ~Ignored(event[i])
  /\ LET arr == SortedArray(scan(entries, event[i].deviceID))
     IN /\ array' = [array EXCEPT ![i] = arr]
        /\ risk_factor' = [risk_factor EXCEPT ![i] =
                             RiskFactor(arr, event[i], roll[i], pitch[i])]
  /\ scanVersion' = [scanVersion EXCEPT ![i] = Version]
  /\ pc' = [pc EXCEPT ![i] = "update_item"]
  /\ UNCHANGED <<entries, devices, clock, event, roll, pitch, timestamp,
                 writes>>

\* lines 109-118
UpdateItem(i) ==
  /\ pc[i] = "update_item"
  /\ devices' = update_item(devices, event[i].deviceID, risk_factor[i],
                            timestamp[i])
  /\ writes' = [writes EXCEPT ![i] = @ \cup {"update_item"}]
  /\ Return(i, "calculate_riskfactor")
  /\ UNCHANGED <<entries, clock>>

\* the platform aborts invocation i (a timeout), or a storage call raises;
\* the writes it completed stay
Abort(i) ==
  /\ pc[i] \in Running
  /\ pc' = [pc EXCEPT ![i] = "failed"]
  /\ Forget(i)
  /\ UNCHANGED <<entries, devices, clock, writes>>

Next ==
  \/ Tick
  \/ \E i \in Invocations, e \in Events : Receive(i, e)
  \/ \E i \in Invocations : InsertEntry(i)
  \/ \E i \in Invocations : ReturnIgnored(i)
  \/ \E i \in Invocations : ScanEntries(i)
  \/ \E i \in Invocations : UpdateItem(i)
  \/ \E i \in Invocations : Abort(i)

Spec == Init /\ [][Next]_vars

\* ------------------------------------------------------------ claims
\* invocation i takes a step; it completes its scan; it completes its
\* device update
Stepped(i) == pc[i] \in Running /\ pc'[i] # pc[i]
Scanned(i) == pc[i] = "calculate_riskfactor" /\ pc'[i] = "update_item"
Updated(i) == pc[i] = "update_item" /\ pc'[i] \notin {"update_item", "failed"}

\* the entries of the table that match the filter of the scan for device d
Matching(table, d) ==
  {u \in DOMAIN table : table[u].deviceID = d /\ table[u].status = OK}

\* C1: no step of an invocation whose event has status -1 changes the
\* devices table: no row is created and no riskFactor or lastUpdated changes
C1_SensorErrorLeavesDevices ==
  [][\A i \in Invocations :
       (Stepped(i) /\ event[i].status = SENSOR_ERROR) => devices' = devices]_vars

\* C1 witness: an invocation on a sensor error has run to its end (it wrote
\* its entry and nothing else) while the row of its device exists
C1_Witness ==
  \E i \in Invocations :
    /\ pc[i] = "done"
    /\ writes[i] = {"put_item"}
    /\ \E u \in DOMAIN entries :
         /\ entries[u].status = SENSOR_ERROR
         /\ entries[u].deviceID \in DOMAIN devices

\* C4: every entry whose status is not 0 has exactly the fields entryUUID,
\* status, deviceID and createdDate
C4_ErrorEntriesCarryNoSensorFields ==
  \A u \in DOMAIN entries :
    entries[u].status # OK =>
      DOMAIN entries[u] = {"entryUUID", "status", "deviceID", "createdDate"}

\* C4 witness: the table holds an entry of status -1
C4_Witness == \E u \in DOMAIN entries : entries[u].status = SENSOR_ERROR

C10_UnknownStatusWritesNothing ==
  [][\A i \in Invocations :
       (Stepped(i) /\ event[i].status \notin {OK, SENSOR_ERROR}) =>
         /\ entries' = entries
         /\ devices' = devices
         /\ pc'[i] \in {"calculate_riskfactor", "done", "failed"}]_vars

\* C10 witness: an invocation has run to its end without a write
C10_Witness ==
  \E i \in Invocations : pc[i] = "done" /\ writes[i] = {}

\* the composite feature of a stored entry
KOf(it) == KNum(it.soil, it.roll, it.pitch)

\* C2 as stated: when invocation i on a reading updates its device with
\* no put_item since its scan and fewer than 3 matching entries other than
\* its own in the table, the row of its device gets riskFactor = 0
C2_Original ==
  [][\A i \in Invocations :
       (/\ Updated(i)
        /\ scanVersion[i] = Version
        /\ Cardinality(Matching(entries, event[i].deviceID)
                         \ {event[i].entryUUID}) < 3)
         => IsZero(devices'[event[i].deviceID].riskFactor)]_vars

\* C2 amended: the same with the event's own entry counted: fewer than 3
\* matching entries in the table at the scan
C2_FewerThanThreeEntriesResetRisk ==
  [][\A i \in Invocations :
       /\ (Scanned(i)
             /\ Cardinality(Matching(entries, event[i].deviceID)) < 3)
            => IsZero(risk_factor'[i])
       /\ (Updated(i) /\ IsZero(risk_factor[i]))
            => IsZero(devices'[event[i].deviceID].riskFactor)]_vars

\* C2 witness: an invocation at time 1 has reset the risk factor of D1 to 0
\* while the table holds two readings of D1 whose features differ
C2_Witness ==
  /\ \E i \in Invocations : pc[i] = "done" /\ "update_item" \in writes[i]
  /\ "D1" \in DOMAIN devices
  /\ devices["D1"].lastUpdated = 1
  /\ IsZero(devices["D1"].riskFactor)
  /\ Cardinality(Matching(entries, "D1")) = 2
  /\ \E u, v \in Matching(entries, "D1") : KOf(entries[u]) # KOf(entries[v])

C5_Original ==
  [][\A u \in DOMAIN entries :
       u \in DOMAIN entries' /\ entries'[u] = entries[u]]_vars

C7_StaleUpsertOverwrites ==
  [][\A i \in Invocations :
       (Updated(i) /\ scanVersion[i] < Version) =>
         /\ devices'[event[i].deviceID] =
              [deviceID |-> event[i].deviceID,
               riskFactor |-> risk_factor[i],
               lastUpdated |-> timestamp[i]]
         /\ risk_factor[i] =
              RiskFactor(array[i], event[i], roll[i], pitch[i])]_vars

\* C7 witness: two invocations on readings of D1 have both run to their end,
\* the table holds 3 readings of D1 from which every reading gets a risk
\* factor above 0, and the row of D1 holds 0 and a lastUpdated below the
\* createdDate of an entry: the invocation that wrote last had scanned before
\* the other inserted, and overwrote the other's update
C7_Witness ==
  /\ \E i, j \in Invocations :
       /\ i # j
       /\ pc[i] = "done" /\ writes[i] = {"put_item", "update_item"}
       /\ pc[j] = "done" /\ writes[j] = {"put_item", "update_item"}
  /\ "D1" \in DOMAIN devices
  /\ IsZero(devices["D1"].riskFactor)
  /\ Cardinality(Matching(entries, "D1")) >= 3
  /\ \A e \in Events :
       e.status = OK =>
         ~IsZero(RiskFactor(SortedArray(scan(entries, "D1")), e,
                            Roll(e), Pitch(e)))
  /\ \E u \in Matching(entries, "D1") :
       entries[u].createdDate > devices["D1"].lastUpdated

====
